---- MODULE Spec2Model ----
(***************************************************************************)
(* design2align-scanner: outline construction (vertical_keyworded_toc.py)  *)
(* and word clustering (word_tools.py).                                    *)
(*                                                                         *)
(* Three specifications share the module:                                  *)
(*   Spec       VerticalContentsHelper.run: build_parts, build_chapters,   *)
(*              build_sections, then the spans of the flattened tree;      *)
(*   SpecWords  WordGrouper.__init__, group (one step per word) and        *)
(*              clean_words;                                               *)
(*   SpecOrder  ContentsItem.is_before applied to anchors drawn from a     *)
(*              bounded set.                                               *)
(***************************************************************************)
EXTENDS Integers, Sequences, FiniteSets, TLC

VARIABLES
  \* ---- vertical_keyworded_toc.py ----
  pc,          \* position in VerticalContentsHelper.run
  items,       \* the ContentsItem objects; items[1] is self.contents
  current,     \* the loop variable of the running build_* loop and its outcome
  ambiguous,   \* history: some is_before call of the build returned None
  n_parts,     \* detections consumed so far by build_parts
  n_chapters,  \* ... by build_chapters
  n_sections,  \* ... by build_sections
  spans,       \* run(): the ContentItemSpan list with each span's y_bounds()
  \* ---- word_tools.py ----
  wpc,         \* position in WordGrouper.group
  line_groups, \* self.line_groups
  consumed,    \* history: the words given to the grouper, in order
  grouped,     \* history: line_groups as group()'s loop left them
  cleaned,     \* history: line_groups after the first clean_words
  \* ---- is_before on its own ----
  opc, oa, ob, oc, r_ab, r_ba, r_bc, r_ac, r_aa

tocVars == <<pc, items, current, ambiguous, n_parts, n_chapters, n_sections, spans>>
wordVars == <<wpc, line_groups, consumed, grouped, cleaned>>
orderVars == <<opc, oa, ob, oc, r_ab, r_ba, r_bc, r_ac, r_aa>>
vars == <<tocVars, wordVars, orderVars>>

\* ---------------------------------------------------------------- bounds
MaxParts == 3
MaxChapters == 2
MaxSections == 2
MaxWords == 4

\* ------------------------------------------------------- generic helpers
\* Python's None where the other values are sequences or records.
None == <<>>

SetMin(S) == CHOOSE x \in S : \A y \in S : x <= y
SetMax(S) == CHOOSE x \in S : \A y \in S : x >= y

\* min(*values) / max(*values) over a non-empty list of numbers
min_of(values) == SetMin({values[i] : i \in 1..Len(values)})
max_of(values) == SetMax({values[i] : i \in 1..Len(values)})

\* =================================================================
\*                    vertical_keyworded_toc.py
\* =================================================================

\* A search result of scanner.find_regex_matches: page, block, paragraph and
\* the four vertices of the match's box (only y is read by this file).
Result(p, b, g, top, bottom) ==
  [page |-> p, block |-> b, paragraph |-> g,
   bounds |-> <<[y |-> top], [y |-> top], [y |-> bottom], [y |-> bottom]>>]

\* The detections the scanner may deliver, in reading order.  Position 5 lies
\* after position 4 in reading order and above it on the page.
Positions ==
  << Result(0, 0, 0, 0, 2),
     Result(0, 0, 0, 4, 6),
     Result(0, 0, 0, 8, 10),
     Result(0, 0, 1, 12, 14),
     Result(0, 1, 0, 1, 3),
     Result(0, 1, 0, 5, 7),
     Result(1, 0, 0, 0, 2),
     Result(1, 0, 0, 4, 6) >>

TocResults == {Positions[1], Positions[2]}
PartResults == {Positions[1], Positions[2], Positions[5], Positions[8]}
ChapterResults == {Positions[1], Positions[3], Positions[6]}
SectionResults == {Positions[4], Positions[7]}

\* ContentsItem.min_y / max_y
min_y(search_result) ==
  min_of([i \in 1..Len(search_result.bounds) |-> search_result.bounds[i].y])
max_y(search_result) ==
  max_of([i \in 1..Len(search_result.bounds) |-> search_result.bounds[i].y])

\* is_before with "return False" where the keys are all equal
is_before_tie_false(self, contents_item) ==
  IF self.page # contents_item.page
    THEN (IF self.page < contents_item.page THEN "True" ELSE "False")
  ELSE IF self.block # contents_item.block
    THEN (IF self.block < contents_item.block THEN "True" ELSE "False")
  ELSE IF self.paragraph # contents_item.paragraph
    THEN (IF self.paragraph < contents_item.paragraph THEN "True" ELSE "False")
  ELSE IF min_y(self) # min_y(contents_item)
    THEN (IF min_y(self) < min_y(contents_item) THEN "True" ELSE "False")
  ELSE "False"

\* ContentsItem.is_before: "True", "False" or "None"
is_before(self, contents_item) ==
  IF self.page # contents_item.page
    THEN (IF self.page < contents_item.page THEN "True" ELSE "False")
  ELSE IF self.block # contents_item.block
    THEN (IF self.block < contents_item.block THEN "True" ELSE "False")
  ELSE IF self.paragraph # contents_item.paragraph
    THEN (IF self.paragraph < contents_item.paragraph THEN "True" ELSE "False")
  ELSE IF min_y(self) # min_y(contents_item)
    THEN (IF min_y(self) < min_y(contents_item) THEN "True" ELSE "False")
  ELSE "None"

\* Python's truth value of an is_before result: None and False are both falsy.
Truthy(r) == r = "True"

\* ContentsItem.__init__: number 0 stands for None (both are falsy in add).
ContentsItem(cls, search_result) ==
  [cls |-> cls, search_result |-> search_result, number |-> 0, children |-> <<>>]

\* ContentsItem.add, on the object table: the new item gets the next index.
add(its, self, content_item) ==
  LET new == Len(its) + 1
      numbered == IF content_item.number = 0
                    THEN [content_item EXCEPT !.number = Len(its[self].children) + 1]
                    ELSE content_item
  IN  Append([its EXCEPT ![self].children = Append(@, new)], numbered)

\* The for/else of find_parent_for: the child before the first child the
\* descendant is before; the last child when it is before none; 0 for None.
scan_parent(its, self, descendant) ==
  LET ch == its[self].children
      hits == {i \in 1..Len(ch) : Truthy(is_before(descendant, its[ch[i]].search_result))}
  IN  IF hits # {}
        THEN (IF SetMin(hits) > 1 THEN ch[SetMin(hits) - 1] ELSE 0)
        ELSE (IF Len(ch) > 0 THEN ch[Len(ch)] ELSE 0)

\* ContentsItem.find_parent_for: the index of the parent, 0 for RuntimeError.
RECURSIVE find_parent_for(_, _, _, _)
find_parent_for(its, self, descendant, parent_type) ==
  LET parent == scan_parent(its, self, descendant)
  IN  IF parent = 0 THEN 0
      ELSE IF its[parent].cls = parent_type THEN parent
      ELSE find_parent_for(its, parent, descendant, parent_type)

\* Whether some is_before call made by find_parent_for returned None.
RECURSIVE find_parent_tie(_, _, _, _)
find_parent_tie(its, self, descendant, parent_type) ==
  LET ch == its[self].children
      hits == {i \in 1..Len(ch) : Truthy(is_before(descendant, its[ch[i]].search_result))}
      upto == IF hits # {} THEN SetMin(hits) ELSE Len(ch)
      here == \E i \in 1..upto : is_before(descendant, its[ch[i]].search_result) = "None"
      parent == scan_parent(its, self, descendant)
  IN  here \/ (parent # 0 /\ its[parent].cls # parent_type
                 /\ find_parent_tie(its, parent, descendant, parent_type))

\* ContentsItem.flatten
RECURSIVE flatten(_, _)
RECURSIVE flatten_children(_, _, _)
flatten(its, self) == <<self>> \o flatten_children(its, its[self].children, 1)
flatten_children(its, ch, i) ==
  IF i > Len(ch) THEN <<>>
  ELSE flatten(its, ch[i]) \o flatten_children(its, ch, i + 1)

\* y_bounds with the span starting at the top of its start anchor
y_bounds_from_top(start, end) ==
  IF end = None \/ start.page # end.page
    THEN [y0 |-> min_y(start), y1 |-> None]
    ELSE [y0 |-> min_y(start), y1 |-> <<min_y(end)>>]

\* ContentItemSpan.y_bounds: start and end are search results, end may be None.
y_bounds(start, end) ==
  IF end = None \/ start.page # end.page
    THEN [y0 |-> max_y(start), y1 |-> None]
    ELSE [y0 |-> max_y(start), y1 |-> <<min_y(end)>>]

\* run(): spans of consecutive flattened items plus the open-ended last one.
make_spans(its) ==
  LET flat == flatten(its, 1)
      n == Len(flat)
  IN  [i \in 1..n |->
        LET s == its[flat[i]].search_result
            e == IF i < n THEN its[flat[i + 1]].search_result ELSE None
        IN  [start |-> flat[i], end |-> IF i < n THEN flat[i + 1] ELSE 0,
             y |-> y_bounds(s, e)]]

NoCurrent == [cls |-> "none", search_result |-> None, outcome |-> "none", parent |-> 0]

WordsIdle ==
  /\ wpc = "idle" /\ line_groups = <<>> /\ consumed = <<>>
  /\ grouped = <<>> /\ cleaned = <<>>

OrderIdle ==
  /\ opc = "idle" /\ oa = None /\ ob = None /\ oc = None
  /\ r_ab = "unset" /\ r_ba = "unset" /\ r_bc = "unset" /\ r_ac = "unset"
  /\ r_aa = "unset"

TocIdle ==
  /\ pc = "idle" /\ items = <<>> /\ current = NoCurrent /\ ambiguous = FALSE
  /\ n_parts = 0 /\ n_chapters = 0 /\ n_sections = 0 /\ spans = <<>>

\* One iteration of the loop of build_parts.
build_parts ==
  /\ pc = "build_parts"
  /\ n_parts < MaxParts
  /\ \E part_result \in PartResults :
       LET part == ContentsItem("Part", part_result)
           r == is_before(part_result, items[1].search_result)
       IN  /\ ambiguous' = (ambiguous \/ r = "None")
           /\ IF Truthy(r)
                THEN /\ items' = items
                     /\ current' = [cls |-> "Part", search_result |-> part_result,
                                    outcome |-> "skipped", parent |-> 0]
                ELSE /\ items' = add(items, 1, part)
                     /\ current' = [cls |-> "Part", search_result |-> part_result,
                                    outcome |-> "added", parent |-> 1]
  /\ n_parts' = n_parts + 1
  /\ UNCHANGED <<pc, n_chapters, n_sections, spans, wordVars, orderVars>>

\* build_parts returns: its loop has run over every part result.
end_parts ==
  /\ pc = "build_parts"
  /\ pc' = "build_chapters"
  /\ current' = NoCurrent
  /\ UNCHANGED <<items, ambiguous, n_parts, n_chapters, n_sections, spans,
                 wordVars, orderVars>>

\* The shared body of the loops of build_chapters and build_sections.
build_below(cls, parent_type, result) ==
  LET r == is_before(result, items[1].search_result)
      parent == find_parent_for(items, 1, result, parent_type)
  IN  IF Truthy(r)
        THEN /\ items' = items
             /\ ambiguous' = ambiguous
             /\ pc' = pc
             /\ current' = [cls |-> cls, search_result |-> result,
                            outcome |-> "skipped", parent |-> 0]
        ELSE /\ ambiguous' = (ambiguous \/ r = "None"
                                \/ find_parent_tie(items, 1, result, parent_type))
             /\ IF parent = 0
                  THEN /\ items' = items
                       /\ pc' = "error"
                       /\ current' = [cls |-> cls, search_result |-> result,
                                      outcome |-> "error", parent |-> 0]
                  ELSE /\ items' = add(items, parent, ContentsItem(cls, result))
                       /\ pc' = pc
                       /\ current' = [cls |-> cls, search_result |-> result,
                                      outcome |-> "added", parent |-> parent]

\* One iteration of the loop of build_chapters.
build_chapters ==
  /\ pc = "build_chapters"
  /\ n_chapters < MaxChapters
  /\ \E chapter_result \in ChapterResults :
       build_below("Chapter", "Part", chapter_result)
  /\ n_chapters' = n_chapters + 1
  /\ UNCHANGED <<n_parts, n_sections, spans, wordVars, orderVars>>

end_chapters ==
  /\ pc = "build_chapters"
  /\ pc' = "build_sections"
  /\ current' = NoCurrent
  /\ UNCHANGED <<items, ambiguous, n_parts, n_chapters, n_sections, spans,
                 wordVars, orderVars>>

\* One iteration of the loop of build_sections.
build_sections ==
  /\ pc = "build_sections"
  /\ n_sections < MaxSections
  /\ \E section_result \in SectionResults :
       build_below("Section", "Chapter", section_result)
  /\ n_sections' = n_sections + 1
  /\ UNCHANGED <<n_parts, n_chapters, spans, wordVars, orderVars>>

\* build_sections returns; run() flattens the tree and builds the spans.
run_spans ==
  /\ pc = "build_sections"
  /\ pc' = "done"
  /\ current' = NoCurrent
  /\ spans' = make_spans(items)
  /\ UNCHANGED <<items, ambiguous, n_parts, n_chapters, n_sections,
                 wordVars, orderVars>>

\* run() up to build_parts: the first table-of-contents match is the root.
Init ==
  /\ pc = "build_parts"
  /\ \E toc \in TocResults : items = <<ContentsItem("TableOfContents", toc)>>
  /\ current = NoCurrent
  /\ ambiguous = FALSE
  /\ n_parts = 0 /\ n_chapters = 0 /\ n_sections = 0
  /\ spans = <<>>
  /\ WordsIdle
  /\ OrderIdle

Next ==
  \/ build_parts
  \/ end_parts
  \/ build_chapters
  \/ end_chapters
  \/ build_sections
  \/ run_spans

Spec == Init /\ [][Next]_vars

\* =================================================================
\*                          word_tools.py
\* =================================================================
\* Coordinates are kept in quarter units (a vertex at x is stored as 4 * x), so
\* that the halves the source takes of sums and of widths stay whole numbers.
Q(v) == 4 * v

\* DEFAULT_PROXIMITY_THRESHOLDS
THRESHOLD_WORD == 35
THRESHOLD_LINE_SLOPE == 1
THRESHOLD_GROUP == 7
THRESHOLD_HEIGHT == 10

Abs(v) == IF v < 0 THEN -v ELSE v

\* sorted(values)
RECURSIVE insert_sorted(_, _)
insert_sorted(v, s) ==
  IF s = <<>> THEN <<v>>
  ELSE IF v <= Head(s) THEN <<v>> \o s
  ELSE <<Head(s)>> \o insert_sorted(v, Tail(s))
RECURSIVE sorted(_)
sorted(values) ==
  IF values = <<>> THEN <<>> ELSE insert_sorted(Head(values), sorted(Tail(values)))

\* list_min / list_max
list_min(values) ==
  IF Len(values) <= 1 THEN (IF Len(values) = 0 THEN None ELSE values[1])
  ELSE min_of(values)
list_max(values) ==
  IF Len(values) <= 1 THEN (IF Len(values) = 0 THEN None ELSE values[1])
  ELSE max_of(values)

\* Element.coordinates, on the four vertices of an element's bounds
x_coordinates(bounds) == sorted([i \in 1..Len(bounds) |-> bounds[i].x])
y_coordinates(bounds) == sorted([i \in 1..Len(bounds) |-> bounds[i].y])

\* Element.min_y, max_y, min_x, max_x: the mean of two coordinates
el_min_y(bounds) == LET ys == y_coordinates(bounds) IN (ys[1] + ys[2]) \div 2
el_max_y(bounds) == LET ys == y_coordinates(bounds) IN (ys[3] + ys[4]) \div 2
el_min_x(bounds) == LET xs == x_coordinates(bounds) IN (xs[1] + xs[2]) \div 2
el_max_x(bounds) == LET xs == x_coordinates(bounds) IN (xs[3] + xs[4]) \div 2

\* Element.height, width, center
el_height(bounds) == Abs(el_max_y(bounds) - el_min_y(bounds))
el_width(bounds) == Abs(el_max_x(bounds) - el_min_x(bounds))
el_center(bounds) ==
  LET mn_x == el_min_x(bounds)
      mn_y == el_min_y(bounds)
  IN  <<mn_x + (Abs(el_max_x(bounds) - mn_x) \div 2),
        mn_y + (Abs(el_max_y(bounds) - mn_y) \div 2)>>

\* slope(point_a, point_b) divides by zero: ZeroDivisionError
slope_raises(point_a, point_b) ==
  point_a # point_b /\ point_b[1] - point_a[1] = 0

\* slope(point_a, point_b) > threshold, where slope does not raise
slope_exceeds(point_a, point_b, threshold) ==
  LET dx == point_b[1] - point_a[1]
      dy == point_b[2] - point_a[2]
  IN  IF point_a = point_b THEN 0 > threshold
      ELSE IF dx > 0 THEN dy > threshold * dx
      ELSE dy < threshold * dx

\* GroupedElement.bounds when nothing is cached: the box around the children
compute_bounds(child_bounds) ==
  LET n == Len(child_bounds)
      min_x == list_min([i \in 1..n |-> el_min_x(child_bounds[i])])
      max_x == list_max([i \in 1..n |-> el_max_x(child_bounds[i])])
      mn_y == list_min([i \in 1..n |-> el_min_y(child_bounds[i])])
      mx_y == list_max([i \in 1..n |-> el_max_y(child_bounds[i])])
  IN  << [x |-> min_x, y |-> mn_y], [x |-> min_x, y |-> mx_y],
         [x |-> max_x, y |-> mx_y], [x |-> max_x, y |-> mn_y] >>

\* Word.bounds
word_bounds(word) == word.bounds

\* GroupedElement.__init__ (a Line or a LineGroup)
GroupedElement == [children |-> <<>>, _bounds |-> None]

\* GroupedElement.reset_bounds
reset_bounds(self) == [self EXCEPT !._bounds = None]

\* add without its reset_bounds
grouped_add_keeps_cache(self, child) ==
  [self EXCEPT !.children = Append(@, child)]

\* GroupedElement.add
grouped_add(self, child) ==
  [reset_bounds(self) EXCEPT !.children = Append(@, child)]

\* GroupedElement.bounds of a Line: the value read
line_bounds(line) ==
  IF line._bounds # None THEN line._bounds
  ELSE compute_bounds([i \in 1..Len(line.children) |-> word_bounds(line.children[i])])

\* GroupedElement.bounds of a Line: the line after the read (the value cached)
line_read(line) == [line EXCEPT !._bounds = line_bounds(line)]

\* GroupedElement.bounds of a LineGroup: the value read
group_bounds(group) ==
  IF group._bounds # None THEN group._bounds
  ELSE compute_bounds([i \in 1..Len(group.children) |-> line_bounds(group.children[i])])

\* GroupedElement.bounds of a LineGroup: the group after the read; computing
\* the value reads, and so caches, the bounds of every line of the group
group_read(group) ==
  IF group._bounds # None THEN group
  ELSE [children |-> [i \in 1..Len(group.children) |-> line_read(group.children[i])],
        _bounds |-> group_bounds(group)]

\* WordGrouper.is_in_line, where slope does not raise
is_in_line(element_bounds, ln_bounds) ==
  IF slope_exceeds(el_center(ln_bounds), el_center(element_bounds), THRESHOLD_LINE_SLOPE)
    THEN FALSE
  ELSE IF Abs(el_height(element_bounds) - el_height(ln_bounds)) > Q(THRESHOLD_HEIGHT)
    THEN FALSE
  ELSE TRUE

\* WordGrouper.word_in_line
word_in_line(word, line) ==
  /\ is_in_line(word_bounds(word), line_bounds(line))
  /\ Abs(el_min_x(word_bounds(word)) - el_max_x(line_bounds(line))) < Q(THRESHOLD_WORD)

\* WordGrouper.line_in_group
line_in_group(line, group) ==
  IF Abs(el_min_y(line_bounds(line)) - el_max_y(group_bounds(group))) > Q(THRESHOLD_GROUP)
    THEN FALSE
  ELSE TRUE

\* re.fullmatch(GROUP_IGNORE, text) is not None, GROUP_IGNORE = ^[\s\.\-]+$ :
\* a text is the sequence of its characters
IgnoreChars == {" ", ".", "-"}
ignored(text) == Len(text) >= 1 /\ \A i \in 1..Len(text) : text[i] \in IgnoreChars

\* list.reverse
reversed(s) == [i \in 1..Len(s) |-> s[Len(s) + 1 - i]]

\* do_trim_line_words with an if for its while: at most one word is popped
do_trim_one_word(words) ==
  IF Len(words) = 0 THEN words
  ELSE IF ~ignored(words[Len(words)].text) THEN words
  ELSE SubSeq(words, 1, Len(words) - 1)

\* WordGrouper.do_trim_line_words: pop from the end up to the first word kept
RECURSIVE do_trim_line_words(_)
do_trim_line_words(words) ==
  IF Len(words) = 0 THEN words
  ELSE IF ~ignored(words[Len(words)].text) THEN words
  ELSE do_trim_line_words(SubSeq(words, 1, Len(words) - 1))

\* trim_line without its second do_trim_line_words: one end is trimmed
trim_line_one_end(line) ==
  IF Len(line.children) = 0 THEN line
  ELSE LET first == do_trim_line_words(reversed(line.children))
       IN  reset_bounds([line EXCEPT !.children = reversed(first)])

\* WordGrouper.trim_line
trim_line(line) ==
  IF Len(line.children) = 0 THEN line
  ELSE LET first == do_trim_line_words(reversed(line.children))
           second == IF Len(first) # 0 THEN do_trim_line_words(reversed(first))
                     ELSE first
       IN  reset_bounds([line EXCEPT !.children = second])

\* clean_words: the ids of the words that follow an ignored word and are
\* ignored themselves (words_to_remove)
RECURSIVE words_to_remove(_, _, _)
words_to_remove(words, i, matched) ==
  IF i > Len(words) THEN {}
  ELSE IF ignored(words[i].text)
    THEN (IF matched THEN {words[i].id} ELSE {}) \cup words_to_remove(words, i + 1, TRUE)
  ELSE words_to_remove(words, i + 1, FALSE)

\* list.remove of each word of words_to_remove (words compare by identity)
remove_words(words, ids) ==
  LET keep == {i \in 1..Len(words) : words[i].id \notin ids}
      idx(k) == CHOOSE i \in keep : Cardinality({j \in keep : j < i}) = k - 1
  IN  [k \in 1..Cardinality(keep) |-> words[idx(k)]]

\* clean_words: the body of the loop over a group's lines, for a line that is
\* not empty
clean_line(line) ==
  LET trimmed == trim_line(line)
  IN  reset_bounds([trimmed EXCEPT !.children =
                      remove_words(@, words_to_remove(trimmed.children, 1, FALSE))])

\* list.remove of every element of a list that is empty
without_empty(elements) ==
  LET keep == {i \in 1..Len(elements) : Len(elements[i].children) # 0}
      idx(k) == CHOOSE i \in keep : Cardinality({j \in keep : j < i}) = k - 1
  IN  [k \in 1..Cardinality(keep) |-> elements[idx(k)]]

\* clean_words: the body of the loop over the groups
clean_group(group) ==
  LET lines == [i \in 1..Len(group.children) |->
                  IF Len(group.children[i].children) = 0 THEN group.children[i]
                  ELSE clean_line(group.children[i])]
  IN  reset_bounds([group EXCEPT !.children = without_empty(lines)])

\* WordGrouper.clean_words
cleaned_groups(groups) ==
  without_empty([i \in 1..Len(groups) |-> clean_group(groups[i])])

\* The words the scanner may deliver: text and box (x0, x1, y0, y1).
Word(text, x0, x1, y0, y1) ==
  [text |-> text,
   bounds |-> << [x |-> Q(x0), y |-> Q(y0)], [x |-> Q(x1), y |-> Q(y0)],
                 [x |-> Q(x1), y |-> Q(y1)], [x |-> Q(x0), y |-> Q(y1)] >>]

WordKinds ==
  { Word(<<"5">>, 0, 10, 0, 10),
    Word(<<".", ".">>, 0, 10, 0, 10),
    Word(<<"5">>, 15, 25, 0, 10),
    Word(<<".", ".", ".">>, 15, 25, 0, 10),
    Word(<<"a", ".">>, 15, 25, 0, 10),
    Word(<<"-">>, 50, 60, 12, 22),
    Word(<<"5">>, 50, 60, 40, 50),
    Word(<<"5">>, 15, 25, 0, 30) }

\* A delivered word: the n-th word object of self.words
Delivered(kind, n) == [id |-> n, text |-> kind.text, bounds |-> kind.bounds]

last_group == line_groups[Len(line_groups)]
last_line == last_group.children[Len(last_group.children)]

\* line_groups with its last group replaced
with_last_group(group) == [line_groups EXCEPT ![Len(line_groups)] = group]
\* a group with its last line replaced
with_last_line(group, line) == [group EXCEPT !.children[Len(group.children)] = line]

\* One iteration of the loop of group().
group_word ==
  /\ wpc = "group"
  /\ Len(consumed) < MaxWords
  /\ \E kind \in WordKinds :
       LET word == Delivered(kind, Len(consumed) + 1)
           line == line_read(last_line)
           group == with_last_line(last_group, line)
           new_line == line_read(grouped_add(GroupedElement, word))
       IN  /\ consumed' = Append(consumed, word)
           /\ IF slope_raises(el_center(line_bounds(last_line)), el_center(word_bounds(word)))
                THEN /\ wpc' = "error"
                     /\ line_groups' = with_last_group(group)
              ELSE IF word_in_line(word, last_line)
                THEN /\ wpc' = wpc
                     /\ line_groups' = with_last_group(
                                         with_last_line(group, grouped_add(line, word)))
              ELSE IF line_in_group(new_line, group)
                THEN /\ wpc' = wpc
                     /\ line_groups' = with_last_group(
                                         grouped_add(group_read(group), new_line))
              ELSE /\ wpc' = wpc
                   /\ line_groups' = Append(with_last_group(group_read(group)),
                                            grouped_add(GroupedElement, new_line))
  /\ UNCHANGED <<grouped, cleaned, tocVars, orderVars>>

\* The loop of group() is over: clean_words, and group() returns.
group_clean ==
  /\ wpc = "group"
  /\ wpc' = "done"
  /\ grouped' = line_groups
  /\ line_groups' = cleaned_groups(line_groups)
  /\ cleaned' = line_groups'
  /\ UNCHANGED <<consumed, tocVars, orderVars>>

\* clean_words called once more on the result.
clean_words ==
  /\ wpc = "done"
  /\ wpc' = "cleaned_twice"
  /\ line_groups' = cleaned_groups(line_groups)
  /\ UNCHANGED <<consumed, grouped, cleaned, tocVars, orderVars>>

\* WordGrouper.__init__: the first word makes the first line of the first group.
InitWords ==
  /\ wpc = "group"
  /\ \E kind \in WordKinds :
       /\ consumed = <<Delivered(kind, 1)>>
       /\ line_groups = <<grouped_add(GroupedElement,
                            grouped_add(GroupedElement, Delivered(kind, 1)))>>
  /\ grouped = <<>>
  /\ cleaned = <<>>
  /\ TocIdle
  /\ OrderIdle

NextWords == group_word \/ group_clean \/ clean_words

SpecWords == InitWords /\ [][NextWords]_vars

\* =================================================================
\*                    is_before on its own
\* =================================================================
MaxKey == 1

\* Boxes of matches: a level one, a skewed one with the same top, a lower one.
OrderBoxes ==
  { <<[y |-> 0], [y |-> 0], [y |-> 2], [y |-> 2]>>,
    <<[y |-> 1], [y |-> 0], [y |-> 2], [y |-> 3]>>,
    <<[y |-> 4], [y |-> 4], [y |-> 6], [y |-> 6]>> }

OrderResults ==
  [page : 0..MaxKey, block : 0..MaxKey, paragraph : 0..MaxKey, bounds : OrderBoxes]

\* a.is_before(b), b.is_before(a), a.is_before(a), b.is_before(c), a.is_before(c)
compare ==
  /\ opc = "start"
  /\ opc' = "done"
  /\ \E c \in OrderResults :
       /\ oc' = c
       /\ r_bc' = is_before(ob, c)
       /\ r_ac' = is_before(oa, c)
  /\ r_ab' = is_before(oa, ob)
  /\ r_ba' = is_before(ob, oa)
  /\ r_aa' = is_before(oa, oa)
  /\ UNCHANGED <<oa, ob, tocVars, wordVars>>

InitOrder ==
  /\ opc = "start"
  /\ oa \in OrderResults
  /\ ob \in OrderResults
  /\ oc = None
  /\ r_ab = "unset" /\ r_ba = "unset" /\ r_bc = "unset" /\ r_ac = "unset"
  /\ r_aa = "unset"
  /\ TocIdle
  /\ WordsIdle

NextOrder == compare

SpecOrder == InitOrder /\ [][NextOrder]_vars

\* ----------------------------------------------------------------
\*                 properties of the outline construction
\* ----------------------------------------------------------------
Item == 1..Len(items)
OfClass(cls) == {i \in Item : items[i].cls = cls}

\* The four ordering keys of an item, the top of its box being the least y.
Top(search_result) ==
  CHOOSE t \in {search_result.bounds[i].y : i \in 1..Len(search_result.bounds)} :
    \A i \in 1..Len(search_result.bounds) : t <= search_result.bounds[i].y
Bottom(search_result) ==
  CHOOSE t \in {search_result.bounds[i].y : i \in 1..Len(search_result.bounds)} :
    \A i \in 1..Len(search_result.bounds) : t >= search_result.bounds[i].y
KeyOf(search_result) ==
  <<search_result.page, search_result.block, search_result.paragraph, Top(search_result)>>
Key(i) == KeyOf(items[i].search_result)

\* Strict lexicographic order of two four-key tuples.
LexLess(k1, k2) ==
  \E i \in 1..4 : k1[i] < k2[i] /\ \A j \in 1..(i - 1) : k1[j] = k2[j]

HasParent(i) == \E p \in Item : \E k \in 1..Len(items[p].children) : items[p].children[k] = i
ParentOf(i) == CHOOSE p \in Item : \E k \in 1..Len(items[p].children) : items[p].children[k] = i

\* The candidates that precede item i in reading order with no candidate between.
NearestPreceding(k, candidates) ==
  {p \in candidates :
     /\ LexLess(Key(p), k)
     /\ \A q \in candidates : LexLess(Key(q), k) => ~LexLess(Key(p), Key(q))}

DistinctKeys == \A i, j \in Item : i # j => Key(i) # Key(j)

\* C1: once build_parts, build_chapters and build_sections have completed
\* without error, every Chapter's parent is the nearest node before it in
\* reading order among the root and the Parts, and every Section's parent is
\* the nearest Chapter before it.  Stated here for detections with pairwise
\* distinct keys, in whatever order they were delivered.
C1_NearestPrecedingParent ==
  (pc = "done" /\ DistinctKeys) =>
    /\ \A c \in OfClass("Chapter") :
         NearestPreceding(Key(c), OfClass("TableOfContents") \cup OfClass("Part"))
           = {ParentOf(c)}
    /\ \A s \in OfClass("Section") :
         NearestPreceding(Key(s), OfClass("Chapter")) = {ParentOf(s)}

\* C2: the children of every node are in reading order, in whatever order
\* the detections were delivered: no later child is before an earlier one.
\* Stated here for detections with pairwise distinct keys.
C2_ChildrenInReadingOrder ==
  DistinctKeys =>
    \A n \in Item : \A i, j \in 1..Len(items[n].children) :
      i < j => is_before(items[items[n].children[j]].search_result,
                         items[items[n].children[i]].search_result) # "True"

\* C4: a comparison of two anchors with four equal keys is surfaced: once an
\* is_before call of the construction has returned None, the construction
\* has ended in an error instead of going on.
C4_AmbiguitySurfaced == ambiguous => pc = "error"

\* Every node has the type its level requires, and one root.
TypedLevels ==
  /\ OfClass("TableOfContents") = {1}
  /\ \A i \in Item \ {1} : HasParent(i)
  /\ \A p \in Item : \A k \in 1..Len(items[p].children) :
       LET c == items[p].children[k]
       IN  \/ items[p].cls = "TableOfContents" /\ items[c].cls = "Part"
           \/ items[p].cls = "Part" /\ items[c].cls = "Chapter"
           \/ items[p].cls = "Chapter" /\ items[c].cls = "Section"

RequiredParent(cls) == IF cls = "Chapter" THEN "Part" ELSE "Chapter"

\* A step of build_chapters or build_sections on an anchor not before the root.
BelowStep ==
  /\ pc \in {"build_chapters", "build_sections"}
  /\ (n_chapters' # n_chapters \/ n_sections' # n_sections)
  /\ is_before(current'.search_result, items[1].search_result) # "True"

\* The anchor became the last child of a node of the required type and
\* nothing else changed.
AttachedUnderRequired ==
  /\ pc' = pc
  /\ Len(items') = Len(items) + 1
  /\ items'[Len(items')].search_result = current'.search_result
  /\ items'[Len(items')].cls = current'.cls
  /\ \E p \in Item :
       /\ items[p].cls = RequiredParent(current'.cls)
       /\ items'[p] = [items[p] EXCEPT !.children = Append(@, Len(items) + 1)]
       /\ \A q \in Item \ {p} : items'[q] = items[q]

RaisedUntouched == pc' = "error" /\ items' = items

\* The Parts a key falls under in reading order.
PartsAbove(k) == NearestPreceding(k, OfClass("Part"))

\* A Section (with keys distinct from every item's) that falls under a Part
\* with no Chapter, in the tree or after it in the document, raises.
SectionUnderBarePart ==
  (/\ pc = "build_sections"
   /\ n_sections' # n_sections
   /\ is_before(current'.search_result, items[1].search_result) # "True"
   /\ DistinctKeys
   /\ \A i \in Item : Key(i) # KeyOf(current'.search_result)
   /\ \E p \in PartsAbove(KeyOf(current'.search_result)) :
        /\ items[p].children = <<>>
        /\ \A c \in OfClass("Chapter") : p \notin PartsAbove(Key(c)))
  => RaisedUntouched

\* C5 (first sentence and its consequence): each anchor processed below the
\* root is either attached under a node of exactly the required type or
\* raises with the tree unchanged, so the tree is typed level by level.
C5_AttachOrRaise ==
  /\ []TypedLevels
  /\ [][BelowStep => (AttachedUnderRequired \/ RaisedUntouched)]_vars

\* C5: the whole claim, with its last clause: a Section falling under a Part
\* that has no Chapter raises instead of being attached elsewhere.
C5_AttachOrRaiseAndBarePart ==
  /\ []TypedLevels
  /\ [][BelowStep => (AttachedUnderRequired \/ RaisedUntouched)]_vars
  /\ [][SectionUnderBarePart]_vars

\* ----------------------------------------------------------------
\*                          properties of the spans
\* ----------------------------------------------------------------
SpanPage(i) == items[spans[i].start].search_result.page

\* The interiors of two y-intervals meet; an open end reaches down the page.
Overlap(a, b) ==
  LET lo == IF a.y0 > b.y0 THEN a.y0 ELSE b.y0
  IN  /\ (a.y1 # None => lo < a.y1[1])
      /\ (b.y1 # None => lo < b.y1[1])

\* C8: the spans that start on one page partition it: a span ends where the
\* next one starts, and no two of them overlap.  Stated here for anchors with
\* pairwise distinct keys.
C8_SpansPartitionPage ==
  (pc = "done" /\ DistinctKeys) =>
    /\ \A i \in 1..(Len(spans) - 1) :
         SpanPage(i) = SpanPage(i + 1) => spans[i].y.y1 = <<spans[i + 1].y.y0>>
    /\ \A i, j \in 1..Len(spans) :
         (i # j /\ SpanPage(i) = SpanPage(j)) => ~Overlap(spans[i].y, spans[j].y)

\* C8 as amended: of two consecutive spans that start on one page, the first
\* ends at the top of the second's start anchor and the second starts at the
\* bottom of that anchor: the first never ends below the second's start, and
\* what lies between them is exactly the anchor's own box.
C8_SpansMeetAtAnchorBox ==
  pc = "done" =>
    \A i \in 1..(Len(spans) - 1) :
      SpanPage(i) = SpanPage(i + 1) =>
        /\ spans[i].y.y1 = <<Top(items[spans[i + 1].start].search_result)>>
        /\ spans[i + 1].y.y0 = Bottom(items[spans[i + 1].start].search_result)
        /\ spans[i].y.y1[1] <= spans[i + 1].y.y0

\* Two consecutive spans on one page with the anchor's box between them.
C8_Witness ==
  /\ pc = "done"
  /\ \E i \in 1..(Len(spans) - 1) :
       /\ SpanPage(i) = SpanPage(i + 1)
       /\ spans[i].y.y1 # None
       /\ spans[i].y.y1[1] < spans[i + 1].y.y0

\* ----------------------------------------------------------------
\*                       properties of is_before
\* ----------------------------------------------------------------
\* The answer the four-key lexicographic comparison gives.
LexAnswer(a, b) ==
  IF LexLess(KeyOf(a), KeyOf(b)) THEN "True"
  ELSE IF LexLess(KeyOf(b), KeyOf(a)) THEN "False"
  ELSE "None"

\* C3: is_before is the strict lexicographic comparison of (page, block,
\* paragraph, min_y): True for a smaller key, False for a larger one, None
\* (not False) for four equal keys; it is irreflexive, asymmetric and
\* transitive.
C3_IsBeforeLexicographic ==
  opc = "done" =>
    /\ r_ab = LexAnswer(oa, ob)
    /\ r_ba = LexAnswer(ob, oa)
    /\ (KeyOf(oa) = KeyOf(ob) => r_ab = "None" /\ r_ab # "False")
    /\ r_aa # "True"
    /\ (r_ab = "True" => r_ba = "False")
    /\ ((r_ab = "True" /\ r_bc = "True") => r_ac = "True")

\* Two different anchors with four equal keys have been compared.
C3_Witness ==
  /\ opc = "done"
  /\ oa # ob
  /\ KeyOf(oa) = KeyOf(ob)
  /\ r_bc = "True"

\* ----------------------------------------------------------------
\*                    properties of the word grouper
\* ----------------------------------------------------------------
RECURSIVE Concat(_)
Concat(seqs) == IF seqs = <<>> THEN <<>> ELSE Head(seqs) \o Concat(Tail(seqs))

\* The lines of a grouping, and its words, in order.
LinesOf(groups) == Concat([g \in 1..Len(groups) |-> groups[g].children])
WordsOf(groups) ==
  Concat([l \in 1..Len(LinesOf(groups)) |-> LinesOf(groups)[l].children])

Word_(line, i) == line.children[i]
SolidBefore(line, i) == \E j \in 1..(i - 1) : ~ignored(Word_(line, j).text)
SolidAfter(line, i) == \E j \in (i + 1)..Len(line.children) : ~ignored(Word_(line, j).text)

\* The words of a line other than its leading and trailing ignorable runs.
KeptByTrim(line, i) ==
  ~ignored(Word_(line, i).text) \/ (SolidBefore(line, i) /\ SolidAfter(line, i))

\* ... and other than the ignorable words that follow an ignorable word.
KeptByClean(line, i) ==
  \/ ~ignored(Word_(line, i).text)
  \/ /\ SolidBefore(line, i) /\ SolidAfter(line, i)
     /\ ~ignored(Word_(line, i - 1).text)

\* The ids of the words of the grouping the loop of group() left that a rule
\* keeps.
KeptIds(Kept(_, _)) ==
  UNION {{Word_(LinesOf(grouped)[l], i).id :
            i \in {k \in 1..Len(LinesOf(grouped)[l].children) : Kept(LinesOf(grouped)[l], k)}} :
         l \in 1..Len(LinesOf(grouped))}

\* The input with only the words of the given ids, in the input's order.
InputRestricted(ids) ==
  LET Test(w) == w.id \in ids IN SelectSeq(consumed, Test)

C7_CleanIdempotent ==
  /\ wpc = "cleaned_twice" => line_groups = cleaned
  /\ wpc \in {"done", "cleaned_twice"} =>
       /\ \A g \in 1..Len(line_groups) : Len(line_groups[g].children) > 0
       /\ \A l \in 1..Len(LinesOf(line_groups)) :
            LET line == LinesOf(line_groups)[l]
            IN  /\ Len(line.children) > 0
                /\ ~ignored(Word_(line, 1).text)
                /\ ~ignored(Word_(line, Len(line.children)).text)

\* clean_words has run twice on a grouping whose first cleaning removed words
\* and left some.
C7_Witness ==
  /\ wpc = "cleaned_twice"
  /\ line_groups # <<>>
  /\ Len(WordsOf(grouped)) > Len(WordsOf(line_groups)) + 1

\* The ids of a grouping: groups of lines of words.
Shape(groups) ==
  [g \in 1..Len(groups) |->
     [l \in 1..Len(groups[g].children) |->
        [w \in 1..Len(groups[g].children[l].children) |->
           groups[g].children[l].children[w].id]]]

\* The box around the current children, whatever is cached.
TrueLineBounds(line) ==
  compute_bounds([i \in 1..Len(line.children) |-> word_bounds(line.children[i])])
TrueGroupBounds(group) ==
  compute_bounds([i \in 1..Len(group.children) |-> TrueLineBounds(group.children[i])])

\* The slope from point a to point b is at most the threshold; two points one
\* above the other have no slope.
SlopeAtMost(a, b, threshold) ==
  \/ a = b /\ 0 <= threshold
  \/ b[1] > a[1] /\ b[2] - a[2] <= threshold * (b[1] - a[1])
  \/ b[1] < a[1] /\ b[2] - a[2] >= threshold * (b[1] - a[1])

InLineTest(word, line) ==
  /\ SlopeAtMost(el_center(TrueLineBounds(line)), el_center(word.bounds),
                 THRESHOLD_LINE_SLOPE)
  /\ Abs(el_height(word.bounds) - el_height(TrueLineBounds(line))) <= Q(THRESHOLD_HEIGHT)

GapBelowWord(word, line) ==
  Abs(el_min_x(word.bounds) - el_max_x(TrueLineBounds(line))) < Q(THRESHOLD_WORD)

NearGroup(word, group) ==
  Abs(el_min_y(word.bounds) - el_max_y(TrueGroupBounds(group))) <= Q(THRESHOLD_GROUP)

\* The three placements of a word of id n in a shape.
InLastLine(S, n) ==
  [S EXCEPT ![Len(S)] = [@ EXCEPT ![Len(@)] = Append(@, n)]]
InNewLine(S, n) == [S EXCEPT ![Len(S)] = Append(@, <<n>>)]
InNewGroup(S, n) == Append(S, <<<<n>>>>)

\* An iteration of the loop of group() has consumed a word.
WordStep == wpc = "group" /\ consumed' # consumed

\* The word went where the three tests, tried in order against the last line
\* of the last group, send it.
PlacedByTests ==
  LET word == consumed'[Len(consumed')]
      S == Shape(line_groups)
  IN  Shape(line_groups') =
        IF InLineTest(word, last_line) /\ GapBelowWord(word, last_line)
          THEN InLastLine(S, word.id)
        ELSE IF NearGroup(word, last_group) THEN InNewLine(S, word.id)
        ELSE InNewGroup(S, word.id)

\* No group was removed and every group before the last is as it was.
EarlierGroupsKept ==
  /\ Len(line_groups') >= Len(line_groups)
  /\ \A g \in 1..(Len(line_groups) - 1) : line_groups'[g] = line_groups[g]

\* C9: each word after the first is placed by exactly one of the three steps,
\* tried in order against the last line of the last group, and no step
\* touches an earlier group or lowers the number of groups.
C9_PlacedByOneOfThreeSteps ==
  [][WordStep => (PlacedByTests /\ EarlierGroupsKept)]_vars

\* C9, for the iterations in which slope() does not raise.
C9_PlacedUnlessSlopeRaises ==
  [][(WordStep /\ wpc' # "error") => (PlacedByTests /\ EarlierGroupsKept)]_vars

\* C10: a cached bounding box is never stale: what a Line or a LineGroup
\* holds in _bounds is the box around its current children, so every read of
\* bounds in group() and after clean_words() returns that box.
C10_CachedBoundsFresh ==
  \A g \in 1..Len(line_groups) :
    /\ line_groups[g]._bounds \in {None, TrueGroupBounds(line_groups[g])}
    /\ \A l \in 1..Len(line_groups[g].children) :
         line_groups[g].children[l]._bounds
           \in {None, TrueLineBounds(line_groups[g].children[l])}

\* A group holds cached bounds that were computed after a word had been
\* appended to a line already inside it.
C10_Witness ==
  /\ wpc = "group"
  /\ \E g \in 1..Len(line_groups) :
       /\ line_groups[g]._bounds # None
       /\ Len(line_groups[g].children) >= 2
       /\ Len(line_groups[g].children[Len(line_groups[g].children)].children) >= 2

====
